---- MODULE Spec2Model ----
(***************************************************************************)
(* Usage-quota and subscription-state engine of the chatdys backend:       *)
(* the users / conversations / messages tables, the authenticated request  *)
(* handlers that read and write them, and the Stripe webhook handlers.     *)
(*                                                                         *)
(* Time is an integer number of ticks; a calendar date is Date(t).  Every  *)
(* request is handled as one step (one session, one transaction scope).    *)
(***************************************************************************)
EXTENDS Integers, Sequences, FiniteSets, TLC

VARIABLES now, users, conversations, messages, resp, probe, delivered, pending

vars == <<now, users, conversations, messages, resp, probe, delivered, pending>>

(***************************************************************************)
(* Bounds of the model                                                     *)
(***************************************************************************)
MaxTime == 2
TicksPerDay == 2
MaxQuestions == 6
MaxConversations == 1
MaxMessages == 2
MaxProbeCount == 6
MaxRequests == 2
ChatMaxConversations == 2
ChatMaxMessages == 4
MaxHistoryMessages == 12

(***************************************************************************)
(* Program constants                                                       *)
(***************************************************************************)
FREE_USER_DAILY_LIMIT == 5
PREMIUM_PERIOD_DAYS == 30
MAX_QUESTION_LENGTH == 2000
HISTORY_LIMIT == 10

(***************************************************************************)
(* NULL values of the nullable columns                                     *)
(***************************************************************************)
NoneT == -1
NoneS == "none"
NoneId == <<>>
NoBody == [none |-> TRUE]

\* datetime.date(): the calendar date of a timestamp
Date(t) == t \div TicksPerDay

\* datetime.fromtimestamp(): epoch value to datetime, both counted in ticks
FromTimestamp(ts) == ts

(***************************************************************************)
(* Identity tokens, questions and billing payloads handled by the model    *)
(***************************************************************************)
Sub1 == <<"auth0|", "u1">>
Sub2 == <<"auth0|", "u2">>
Token1 == [sub |-> Sub1, email |-> "u1@example.com"]
Token2 == [sub |-> Sub2, email |-> "u2@example.com"]
\* a subject without namespace prefix whose text is the stripped id of Sub1,
\* and a subject of another connection with the email of Token1
SubBare == <<"u1">>
SubSocial == <<"google-oauth2|", "g1">>
TokenBare == [sub |-> SubBare, email |-> "bare@example.com"]
TokenSocial == [sub |-> SubSocial, email |-> "u1@example.com"]
IdentityTokens == {Token1, Token2, TokenBare, TokenSocial}

QuotaTokens == {Token1}
BillingTokens == {Token1, Token2}

EmptyQuestion == [len |-> 0, stripped |-> 0]
OkQuestion == [len |-> 12, stripped |-> 12]
LongQuestion == [len |-> MAX_QUESTION_LENGTH + 1, stripped |-> MAX_QUESTION_LENGTH + 1]
Questions == {EmptyQuestion, OkQuestion, LongQuestion}
\* whitespace only, exactly the maximum length, and too long only through
\* surrounding whitespace
BlankQuestion == [len |-> 3, stripped |-> 0]
FullQuestion == [len |-> MAX_QUESTION_LENGTH, stripped |-> MAX_QUESTION_LENGTH]
PaddedQuestion == [len |-> MAX_QUESTION_LENGTH + 1, stripped |-> 12]
ValidationQuestions == Questions \cup {BlankQuestion, FullQuestion, PaddedQuestion}

ConversationIds == 0 .. MaxConversations
ProviderOutcomes == {"ok", "error"}

SubIds == {"sub_1", "sub_2"}
UpdateStatuses == {"active", "canceled", "unpaid", "past_due", "trialing"}
PeriodEnds == {NoneT, 1}
CheckoutUserIds == {NoneId, <<"u1">>, <<"u2">>}

Event(type, user_id, subscription, status, period_end) ==
    [type |-> type, user_id |-> user_id, subscription |-> subscription,
     status |-> status, period_end |-> period_end]

CheckoutEvents ==
    {Event("checkout.session.completed", uid, sid, NoneS, NoneT) :
        uid \in CheckoutUserIds, sid \in SubIds \cup {NoneS}}
UpdatedEvents ==
    UNION {{Event("customer.subscription.updated", NoneId, sid, st, pe) :
        sid \in SubIds, st \in UpdateStatuses} : pe \in PeriodEnds}
DeletedEvents ==
    {Event("customer.subscription.deleted", NoneId, sid, NoneS, NoneT) : sid \in SubIds}
SucceededEvents ==
    {Event("invoice.payment_succeeded", NoneId, sid, NoneS, pe) :
        sid \in SubIds \cup {NoneS}, pe \in PeriodEnds}
FailedEvents ==
    {Event("invoice.payment_failed", NoneId, sid, NoneS, NoneT) : sid \in SubIds \cup {NoneS}}

BillingEvents ==
    CheckoutEvents \cup UpdatedEvents \cup DeletedEvents \cup SucceededEvents \cup FailedEvents

QuotaEvents ==
    { Event("checkout.session.completed", <<"u1">>, "sub_1", NoneS, NoneT),
      Event("customer.subscription.updated", NoneId, "sub_1", "active", 1),
      Event("customer.subscription.deleted", NoneId, "sub_1", NoneS, NoneT),
      Event("invoice.payment_succeeded", NoneId, "sub_1", NoneS, 1),
      Event("invoice.payment_failed", NoneId, "sub_1", NoneS, NoneT) }

(***************************************************************************)
(* models/user.py                                                          *)
(***************************************************************************)
\* a users row as inserted by get_current_user_from_db, column defaults applied
NewUser(token) ==
    [auth0_sub |-> token.sub, email |-> token.email,
     question_count |-> 0, daily_question_count |-> 0,
     last_question_date |-> NoneT, total_conversations |-> 0,
     is_premium |-> FALSE, subscription_status |-> "free",
     subscription_id |-> NoneS, premium_expires_at |-> NoneT]

\* variant: the limit itself still allows a question
can_ask_questions_inclusive(u, daily_limit, t) ==
    IF u.is_premium THEN TRUE
    ELSE IF u.last_question_date # NoneT /\ Date(u.last_question_date) # Date(t)
         THEN TRUE
         ELSE u.daily_question_count <= daily_limit

\* variant: any earlier question counts as a fresh day
can_ask_questions_no_date(u, daily_limit, t) ==
    IF u.is_premium THEN TRUE
    ELSE IF u.last_question_date # NoneT
         THEN TRUE
         ELSE u.daily_question_count < daily_limit

can_ask_questions(u, daily_limit, t) ==
    IF u.is_premium THEN TRUE
    ELSE IF u.last_question_date # NoneT /\ Date(u.last_question_date) # Date(t)
         THEN TRUE
         ELSE u.daily_question_count < daily_limit

\* variant: the stale counter is kept
reset_daily_count_if_needed_never(u, t) == u

reset_daily_count_if_needed(u, t) ==
    IF u.last_question_date # NoneT /\ Date(u.last_question_date) # Date(t)
    THEN [u EXCEPT !.daily_question_count = 0]
    ELSE u

to_session_dict(u) ==
    [question_count |-> u.question_count,
     daily_question_count |-> u.daily_question_count,
     is_premium |-> u.is_premium,
     subscription_status |-> u.subscription_status]

(***************************************************************************)
(* auth/auth0_manager.py, api/user_routes.py: the current-user dependency  *)
(***************************************************************************)
extract_user_id(sub) ==
    IF Len(sub) > 0 /\ Head(sub) = "auth0|" THEN Tail(sub) ELSE sub

FindBySub(U, sub) == {id \in DOMAIN U : U[id].auth0_sub = sub}

EmailTaken(U, email, self) == \E id \in DOMAIN U \ {self} : U[id].email = email

\* variant: a users table without primary key and unique constraints
InsertConflicts_unconstrained(U, token) == FALSE

\* INSERT of a new row raises IntegrityError: primary key id, unique
\* auth0_sub, unique email
InsertConflicts(U, token) ==
    \/ extract_user_id(token.sub) \in DOMAIN U
    \/ FindBySub(U, token.sub) # {}
    \/ EmailTaken(U, token.email, extract_user_id(token.sub))

\* Result of the dependency: the committed users table and the id of the
\* loaded row, or ok = FALSE when the commit raises (unique / primary key).
get_current_user_from_db(U, token, t) ==
    LET user_id == extract_user_id(token.sub)
        found == FindBySub(U, token.sub)
    IN  IF found = {}
        THEN IF InsertConflicts(U, token)
             THEN [ok |-> FALSE, users |-> U, id |-> user_id]
             ELSE [ok |-> TRUE, users |-> U @@ (user_id :> NewUser(token)), id |-> user_id]
        ELSE LET id == CHOOSE i \in found : TRUE
                 upd == reset_daily_count_if_needed([U[id] EXCEPT !.email = token.email], t)
             IN  IF EmailTaken(U, token.email, id)
                 THEN [ok |-> FALSE, users |-> U, id |-> id]
                 ELSE [ok |-> TRUE, users |-> [U EXCEPT ![id] = upd], id |-> id]

Response(op, code, body) == [op |-> op, code |-> code, body |-> body]

\* the request ends in the dependency: nothing committed, server error
AuthFailed(op) ==
    /\ resp' = Response(op, 500, NoBody)
    /\ UNCHANGED <<now, users, conversations, messages, probe, delivered, pending>>

(***************************************************************************)
(* Initial state: empty tables                                             *)
(***************************************************************************)
\* no billing event delivered yet; no request in flight
NoEvent == [type |-> "none"]
Requests == 1 .. MaxRequests
Idle == [pc |-> "idle"]
NoPending == [r \in Requests |-> Idle]

NoProbe == [is_premium |-> FALSE, daily_question_count |-> 0,
            last_question_date |-> NoneT, daily_limit |-> 0, today |-> 0,
            result |-> "idle"]

Init ==
    /\ now = 0
    /\ users = << >>
    /\ conversations = << >>
    /\ messages = << >>
    /\ resp = Response("none", 0, NoBody)
    /\ probe = NoProbe
    /\ delivered = NoEvent
    /\ pending = NoPending

\* the clock advances between requests
Tick ==
    /\ now < MaxTime
    /\ now' = now + 1
    /\ resp' = Response("none", 0, NoBody)
    /\ UNCHANGED <<users, conversations, messages, probe, delivered, pending>>

(***************************************************************************)
(* api/user_routes.py: request handlers                                    *)
(***************************************************************************)
\* GET /api/user/session
GetSession(token) ==
    LET a == get_current_user_from_db(users, token, now)
    IN  IF ~a.ok THEN AuthFailed("session")
        ELSE /\ users' = a.users
             /\ resp' = Response("session", 200, to_session_dict(a.users[a.id]))
             /\ UNCHANGED <<now, conversations, messages, probe, delivered, pending>>

\* variant: the daily counter advances by two
record_question_twice(u, t) ==
    [u EXCEPT !.question_count = @ + 1,
              !.daily_question_count = @ + 2,
              !.last_question_date = t]

\* the counter update of POST /increment-question
record_question(u, t) ==
    [u EXCEPT !.question_count = @ + 1,
              !.daily_question_count = @ + 1,
              !.last_question_date = t]

\* POST /api/user/increment-question
IncrementQuestion(token) ==
    LET a == get_current_user_from_db(users, token, now)
    IN  IF ~a.ok THEN AuthFailed("increment_question")
        ELSE LET u == a.users[a.id]
             IN  IF ~can_ask_questions(u, FREE_USER_DAILY_LIMIT, now)
                 THEN /\ users' = a.users
                      /\ resp' = Response("increment_question", 429, NoBody)
                      /\ UNCHANGED <<now, conversations, messages, probe, delivered, pending>>
                 ELSE LET v == record_question(reset_daily_count_if_needed(u, now), now)
                      IN  /\ u.question_count < MaxQuestions
                          /\ users' = [a.users EXCEPT ![a.id] = v]
                          /\ resp' = Response("increment_question", 200,
                                 [question_count |-> v.question_count,
                                  daily_question_count |-> v.daily_question_count,
                                  can_ask_more |-> can_ask_questions(v, FREE_USER_DAILY_LIMIT, now),
                                  is_premium |-> v.is_premium])
                          /\ UNCHANGED <<now, conversations, messages, probe, delivered, pending>>

\* GET /api/user/usage: the reset is applied to the loaded row, never committed
GetUsage(token) ==
    LET a == get_current_user_from_db(users, token, now)
    IN  IF ~a.ok THEN AuthFailed("usage")
        ELSE LET u == reset_daily_count_if_needed(a.users[a.id], now)
             IN  /\ users' = a.users
                 /\ resp' = Response("usage", 200,
                        [question_count |-> u.question_count,
                         daily_question_count |-> u.daily_question_count,
                         is_premium |-> u.is_premium,
                         subscription_status |-> u.subscription_status,
                         can_ask_questions |-> can_ask_questions(u, FREE_USER_DAILY_LIMIT, now)])
                 /\ UNCHANGED <<now, conversations, messages, probe, delivered, pending>>

\* the expiry demotion of GET /check-premium, applied to the loaded row
expire_premium(u, t) ==
    IF u.is_premium /\ u.premium_expires_at # NoneT /\ t > u.premium_expires_at
    THEN [u EXCEPT !.is_premium = FALSE, !.subscription_status = "expired"]
    ELSE u

\* GET /api/user/check-premium: the handler has no session and never commits,
\* so the demoted row is reported and then discarded with the session
CheckPremium(token) ==
    LET a == get_current_user_from_db(users, token, now)
    IN  IF ~a.ok THEN AuthFailed("check_premium")
        ELSE LET u == expire_premium(a.users[a.id], now)
             IN  /\ users' = a.users
                 /\ resp' = Response("check_premium", 200,
                        [is_premium |-> u.is_premium,
                         subscription_status |-> u.subscription_status,
                         premium_expires_at |-> u.premium_expires_at])
                 /\ UNCHANGED <<now, conversations, messages, probe, delivered, pending>>

\* GET /api/payments/subscription-status
GetSubscriptionStatus(token) ==
    LET a == get_current_user_from_db(users, token, now)
    IN  IF ~a.ok THEN AuthFailed("subscription_status")
        ELSE LET u == a.users[a.id]
             IN  /\ users' = a.users
                 /\ resp' = Response("subscription_status", 200,
                        [is_premium |-> u.is_premium,
                         subscription_status |-> u.subscription_status,
                         subscription_id |-> u.subscription_id,
                         premium_expires_at |-> u.premium_expires_at])
                 /\ UNCHANGED <<now, conversations, messages, probe, delivered, pending>>

(***************************************************************************)
(* api/chat_routes.py                                                      *)
(***************************************************************************)
\* variant: the lookup does not filter on the owner
LookupConversation_any_owner(C, conversation_id, user_id) ==
    IF /\ conversation_id # 0
       /\ conversation_id \in 1 .. Len(C)
       /\ C[conversation_id].is_active
    THEN conversation_id
    ELSE 0

\* variant: a question of exactly the maximum length is too long
InvalidQuestion_exclusive(question) ==
    question.stripped = 0 \/ question.len >= MAX_QUESTION_LENGTH

\* the validation of POST /query: empty after strip(), or longer than the
\* maximum before it
InvalidQuestion(question) ==
    question.stripped = 0 \/ question.len > MAX_QUESTION_LENGTH

\* the conversation lookup of POST /query: 0 when no row matches
LookupConversation(C, conversation_id, user_id) ==
    IF /\ conversation_id # 0
       /\ conversation_id \in 1 .. Len(C)
       /\ C[conversation_id].user_id = user_id
       /\ C[conversation_id].is_active
    THEN conversation_id
    ELSE 0

NewConversation(user_id) ==
    [user_id |-> user_id, is_active |-> TRUE, message_count |-> 0]

NewMessage(conversation_id, user_id, role, content) ==
    [conversation_id |-> conversation_id, user_id |-> user_id,
     role |-> role, content |-> content]

\* chat_service.get_response: the provider's answer, or the apology it
\* returns when the provider call raises
get_response(outcome) ==
    IF outcome = "ok" THEN "answer" ELSE "apology"

\* variant: the submission itself records the question
update_user_stats_recording(u, message_count) ==
    LET r == [u EXCEPT !.question_count = @ + 1, !.daily_question_count = @ + 1]
    IN  IF message_count = 2
        THEN [r EXCEPT !.total_conversations = @ + 1]
        ELSE r

\* the account update at the end of POST /query
update_user_stats(u, message_count) ==
    IF message_count = 2
    THEN [u EXCEPT !.total_conversations = @ + 1]
    ELSE u

\* POST /api/chat/query
SendMessage(token, question, conversation_id, outcome) ==
    LET a == get_current_user_from_db(users, token, now)
    IN  IF ~a.ok THEN AuthFailed("query")
        ELSE LET u == a.users[a.id]
             IN  IF ~can_ask_questions(u, FREE_USER_DAILY_LIMIT, now)
                 THEN /\ users' = a.users
                      /\ resp' = Response("query", 429, NoBody)
                      /\ UNCHANGED <<now, conversations, messages, probe, delivered, pending>>
                 ELSE IF InvalidQuestion(question)
                 THEN /\ users' = a.users
                      /\ resp' = Response("query", 400, NoBody)
                      /\ UNCHANGED <<now, conversations, messages, probe, delivered, pending>>
                 ELSE LET existing == LookupConversation(conversations, conversation_id, a.id)
                          C1 == IF existing = 0
                                THEN Append(conversations, NewConversation(a.id))
                                ELSE conversations
                          c == IF existing = 0 THEN Len(C1) ELSE existing
                          count == C1[c].message_count + 2
                      IN  /\ existing = 0 => Len(conversations) < MaxConversations
                          /\ Len(messages) + 2 <= MaxMessages
                          /\ conversations' = [C1 EXCEPT ![c].message_count = count]
                          /\ messages' = messages \o
                                 <<NewMessage(c, a.id, "user", question),
                                   NewMessage(c, a.id, "assistant", get_response(outcome))>>
                          /\ users' = [a.users EXCEPT ![a.id] = update_user_stats(u, count)]
                          /\ resp' = Response("query", 200,
                                 [answer |-> get_response(outcome), conversation_id |-> c])
                          /\ UNCHANGED <<now, probe, delivered, pending>>

\* GET /api/chat/conversations
GetConversations(token) ==
    LET a == get_current_user_from_db(users, token, now)
    IN  IF ~a.ok THEN AuthFailed("conversations")
        ELSE LET u == a.users[a.id]
             IN  /\ users' = a.users
                 /\ resp' = IF ~u.is_premium
                            THEN Response("conversations", 403, NoBody)
                            ELSE Response("conversations", 200,
                                   [total |-> Cardinality({c \in 1 .. Len(conversations) :
                                       /\ conversations[c].user_id = a.id
                                       /\ conversations[c].is_active})])
                 /\ UNCHANGED <<now, conversations, messages, probe, delivered, pending>>

(***************************************************************************)
(* api/payment_routes.py: Stripe webhook handlers                          *)
(***************************************************************************)
\* Python truthiness of an optional timestamp (None and 0 are false)
Truthy(ts) == ts # NoneT /\ ts # 0

\* db.query(User).filter(User.subscription_id == sid): the matching rows
BySubscription(sid) == {id \in DOMAIN users : users[id].subscription_id = sid}

Acknowledge ==
    /\ resp' = Response("webhook", 200, NoBody)
    /\ UNCHANGED <<now, conversations, messages, probe, pending>>

\* variant: the entitlement window starts at the epoch
checkout_completed_fixed_expiry(u, subscription, t) ==
    [u EXCEPT !.is_premium = TRUE,
              !.subscription_status = "active",
              !.subscription_id = subscription,
              !.premium_expires_at = PREMIUM_PERIOD_DAYS * TicksPerDay]

checkout_completed(u, subscription, t) ==
    [u EXCEPT !.is_premium = TRUE,
              !.subscription_status = "active",
              !.subscription_id = subscription,
              !.premium_expires_at = t + PREMIUM_PERIOD_DAYS * TicksPerDay]

handle_checkout_completed(e) ==
    /\ IF e.user_id = NoneId \/ e.user_id \notin DOMAIN users
       THEN UNCHANGED users
       ELSE users' = [users EXCEPT ![e.user_id] = checkout_completed(@, e.subscription, now)]
    /\ Acknowledge

\* variant: past_due keeps the plan
subscription_updated_grace(u, status, current_period_end) ==
    LET s == [u EXCEPT !.subscription_status = status]
    IN  IF status = "active"
        THEN IF Truthy(current_period_end)
             THEN [s EXCEPT !.is_premium = TRUE,
                            !.premium_expires_at = FromTimestamp(current_period_end)]
             ELSE [s EXCEPT !.is_premium = TRUE]
        ELSE IF status \in {"canceled", "unpaid"}
             THEN [s EXCEPT !.is_premium = FALSE]
             ELSE s

subscription_updated(u, status, current_period_end) ==
    LET s == [u EXCEPT !.subscription_status = status]
    IN  IF status = "active"
        THEN IF Truthy(current_period_end)
             THEN [s EXCEPT !.is_premium = TRUE,
                            !.premium_expires_at = FromTimestamp(current_period_end)]
             ELSE [s EXCEPT !.is_premium = TRUE]
        ELSE IF status \in {"canceled", "unpaid", "past_due"}
             THEN [s EXCEPT !.is_premium = FALSE]
             ELSE s

handle_subscription_updated(e) ==
    /\ IF BySubscription(e.subscription) = {}
       THEN UNCHANGED users
       ELSE \E id \in BySubscription(e.subscription) :
                users' = [users EXCEPT ![id] = subscription_updated(@, e.status, e.period_end)]
    /\ Acknowledge

\* variant: the British spelling of the column comment
subscription_deleted_cancelled(u) ==
    [u EXCEPT !.is_premium = FALSE, !.subscription_status = "cancelled"]

\* variant: the plan is kept until the period ends
subscription_deleted_keeping(u) ==
    [u EXCEPT !.subscription_status = "canceled"]

subscription_deleted(u) ==
    [u EXCEPT !.is_premium = FALSE, !.subscription_status = "canceled"]

handle_subscription_deleted(e) ==
    /\ IF BySubscription(e.subscription) = {}
       THEN UNCHANGED users
       ELSE \E id \in BySubscription(e.subscription) :
                users' = [users EXCEPT ![id] = subscription_deleted(@)]
    /\ Acknowledge

\* variant: a paid invoice starts a fresh daily quota
payment_succeeded_resetting(u, period_end) ==
    IF Truthy(period_end)
    THEN [u EXCEPT !.premium_expires_at = FromTimestamp(period_end),
                   !.is_premium = TRUE,
                   !.subscription_status = "active",
                   !.daily_question_count = 0]
    ELSE u

payment_succeeded(u, period_end) ==
    IF Truthy(period_end)
    THEN [u EXCEPT !.premium_expires_at = FromTimestamp(period_end),
                   !.is_premium = TRUE,
                   !.subscription_status = "active"]
    ELSE u

handle_payment_succeeded(e) ==
    /\ IF e.subscription = NoneS \/ BySubscription(e.subscription) = {}
       THEN UNCHANGED users
       ELSE \E id \in BySubscription(e.subscription) :
                users' = [users EXCEPT ![id] = payment_succeeded(@, e.period_end)]
    /\ Acknowledge

\* variant: a failed payment revokes the plan at once
payment_failed_revoking(u) ==
    [u EXCEPT !.subscription_status = "past_due", !.is_premium = FALSE]

payment_failed(u) ==
    [u EXCEPT !.subscription_status = "past_due"]

\* variant: every account holding the subscription id is updated
handle_payment_failed_every(e) ==
    /\ IF e.subscription = NoneS \/ BySubscription(e.subscription) = {}
       THEN UNCHANGED users
       ELSE users' = [id \in DOMAIN users |->
                         IF id \in BySubscription(e.subscription)
                         THEN payment_failed(users[id]) ELSE users[id]]
    /\ Acknowledge

handle_payment_failed(e) ==
    /\ IF e.subscription = NoneS \/ BySubscription(e.subscription) = {}
       THEN UNCHANGED users
       ELSE \E id \in BySubscription(e.subscription) :
                users' = [users EXCEPT ![id] = payment_failed(@)]
    /\ Acknowledge

\* POST /api/payments/webhook: dispatch of a verified event on its type
StripeWebhook(e) ==
    \/ e.type = "checkout.session.completed" /\ handle_checkout_completed(e)
    \/ e.type = "customer.subscription.updated" /\ handle_subscription_updated(e)
    \/ e.type = "customer.subscription.deleted" /\ handle_subscription_deleted(e)
    \/ e.type = "invoice.payment_succeeded" /\ handle_payment_succeeded(e)
    \/ e.type = "invoice.payment_failed" /\ handle_payment_failed(e)

(***************************************************************************)
(* Specifications                                                          *)
(***************************************************************************)
\* one account using the quota endpoints while billing events arrive
Next ==
    \/ Tick
    \/ \E token \in QuotaTokens :
          \/ GetSession(token)
          \/ GetUsage(token)
          \/ IncrementQuestion(token)
          \/ CheckPremium(token)
          \/ GetSubscriptionStatus(token)
          \/ GetConversations(token)
          \/ \E q \in Questions, c \in ConversationIds, o \in ProviderOutcomes :
                SendMessage(token, q, c, o)
    \/ \E e \in QuotaEvents : StripeWebhook(e) /\ UNCHANGED delivered

Spec == Init /\ [][Next]_vars

\* two accounts, the first with questions already recorded today, reading
\* their status while all billing events arrive
SeenUser ==
    [NewUser(Token1) EXCEPT !.question_count = 3,
                            !.daily_question_count = 2,
                            !.last_question_date = 0]

InitBilling ==
    /\ now = 0
    /\ users = (extract_user_id(Sub1) :> SeenUser)
    /\ conversations = << >>
    /\ messages = << >>
    /\ resp = Response("none", 0, NoBody)
    /\ probe = NoProbe
    /\ delivered = NoEvent
    /\ pending = NoPending

NextBilling ==
    \/ Tick
    \/ \E token \in BillingTokens : GetSubscriptionStatus(token)
    \/ \E e \in BillingEvents : StripeWebhook(e) /\ UNCHANGED delivered

SpecBilling == InitBilling /\ [][NextBilling]_vars

\* can_ask_questions applied to every account, limit and clock value
ProbeInputs ==
    [is_premium : BOOLEAN,
     daily_question_count : 0 .. MaxProbeCount,
     last_question_date : {NoneT} \cup (0 .. MaxTime),
     daily_limit : 0 .. MaxProbeCount,
     today : 0 .. MaxTime,
     result : {"idle"}]

InitCanAsk ==
    /\ now = 0
    /\ users = << >>
    /\ conversations = << >>
    /\ messages = << >>
    /\ resp = Response("none", 0, NoBody)
    /\ probe \in ProbeInputs
    /\ delivered = NoEvent
    /\ pending = NoPending

ApplyCanAsk ==
    /\ probe.result = "idle"
    /\ probe' = [probe EXCEPT !.result =
                    IF can_ask_questions(probe, probe.daily_limit, probe.today)
                    THEN "true" ELSE "false"]
    /\ UNCHANGED <<now, users, conversations, messages, resp, delivered, pending>>

SpecCanAsk == InitCanAsk /\ [][ApplyCanAsk]_vars

\* at-least-once delivery: the billing provider delivers an event and may
\* deliver the same event again later
Deliver(e) ==
    /\ StripeWebhook(e)
    /\ delivered' = e

NextReplay ==
    \/ Tick
    \/ \E e \in BillingEvents : Deliver(e)

SpecReplay == InitBilling /\ [][NextReplay]_vars

\* first requests handled concurrently: each request has its own session;
\* the lookup by auth0_sub finds no row, and the insert is committed later
BeginCreate(r, token) ==
    /\ pending[r] = Idle
    /\ FindBySub(users, token.sub) = {}
    /\ pending' = [pending EXCEPT ![r] = [pc |-> "creating", token |-> token]]
    /\ UNCHANGED <<now, users, conversations, messages, resp, probe, delivered>>

\* db.add(user); db.commit() of the request that found no row, followed by
\* the body of GET /api/user/session; IntegrityError ends the request
CommitCreate(r) ==
    /\ pending[r].pc = "creating"
    /\ LET token == pending[r].token
           user_id == extract_user_id(token.sub)
       IN  IF InsertConflicts(users, token)
           THEN /\ resp' = Response("session", 500, NoBody)
                /\ UNCHANGED users
           ELSE /\ users' = users @@ (user_id :> NewUser(token))
                /\ resp' = Response("session", 200, to_session_dict(NewUser(token)))
    /\ pending' = [pending EXCEPT ![r] = Idle]
    /\ UNCHANGED <<now, conversations, messages, probe, delivered>>

NextIdentity ==
    \/ \E token \in IdentityTokens : GetSession(token)
    \/ \E r \in Requests, token \in IdentityTokens : BeginCreate(r, token)
    \/ \E r \in Requests : CommitCreate(r)

SpecIdentity == Init /\ [][NextIdentity]_vars

\* two accounts that have logged in, using the chat endpoints concurrently
ChatTokens == {Token1, Token2}
ChatConversationIds == 0 .. ChatMaxConversations

InitChat ==
    /\ now = 0
    /\ users = (extract_user_id(Sub1) :> NewUser(Token1))
                   @@ (extract_user_id(Sub2) :> NewUser(Token2))
    /\ conversations = << >>
    /\ messages = << >>
    /\ resp = Response("none", 0, NoBody)
    /\ probe = NoProbe
    /\ delivered = NoEvent
    /\ pending = NoPending

Answering == {r \in Requests : pending[r].pc = "answering"}

\* POST /api/chat/query up to the await of the provider call: dependency,
\* quota check, validation, conversation lookup or creation (committed).
\* The session keeps the conversation and account rows it has loaded; the
\* request takes the first free slot.
BeginSend(r, token, question, conversation_id) ==
    /\ pending[r] = Idle
    /\ \A earlier \in 1 .. r - 1 : pending[earlier] # Idle
    /\ LET a == get_current_user_from_db(users, token, now)
       IN  IF ~a.ok
           THEN /\ resp' = Response("query", 500, NoBody)
                /\ UNCHANGED <<users, conversations, pending>>
           ELSE LET u == a.users[a.id]
                IN  IF ~can_ask_questions(u, FREE_USER_DAILY_LIMIT, now)
                    THEN /\ users' = a.users
                         /\ resp' = Response("query", 429, NoBody)
                         /\ UNCHANGED <<conversations, pending>>
                    ELSE IF InvalidQuestion(question)
                    THEN /\ users' = a.users
                         /\ resp' = Response("query", 400, NoBody)
                         /\ UNCHANGED <<conversations, pending>>
                    ELSE LET existing == LookupConversation(conversations, conversation_id, a.id)
                             C1 == IF existing = 0
                                   THEN Append(conversations, NewConversation(a.id))
                                   ELSE conversations
                             c == IF existing = 0 THEN Len(C1) ELSE existing
                         IN  /\ existing = 0 => Len(conversations) < ChatMaxConversations
                             /\ Len(messages) + 2 * (Cardinality(Answering) + 1) <= ChatMaxMessages
                             /\ users' = a.users
                             /\ conversations' = C1
                             /\ pending' = [pending EXCEPT ![r] =
                                    [pc |-> "answering",
                                     user_id |-> a.id,
                                     question |-> question,
                                     requested |-> conversation_id,
                                     conversation |-> c,
                                     created |-> existing = 0,
                                     message_count |-> C1[c].message_count,
                                     total_conversations |-> u.total_conversations]]
                             /\ UNCHANGED resp
    /\ UNCHANGED <<now, messages, probe, delivered>>

\* POST /api/chat/query when a statement after the conversation lookup
\* raises: rollback of the uncommitted messages and counters, 500
FailSend(r) ==
    /\ pending[r].pc = "answering"
    /\ resp' = Response("query", 500, NoBody)
    /\ pending' = [pending EXCEPT ![r] = Idle]
    /\ UNCHANGED <<now, users, conversations, messages, probe, delivered>>

\* variant: a failure of the provider call ends the request
FinishSend_propagating(r, outcome) ==
    IF outcome = "error"
    THEN FailSend(r)
    ELSE
             /\ pending[r].pc = "answering"
             /\ LET p == pending[r]
                    count == p.message_count + 2
                    cached == [users[p.user_id] EXCEPT !.total_conversations = p.total_conversations]
                    updated == update_user_stats(cached, count)
                IN  /\ messages' = messages \o
                           <<NewMessage(p.conversation, p.user_id, "user", p.question),
                             NewMessage(p.conversation, p.user_id, "assistant", get_response(outcome))>>
                    /\ conversations' = [conversations EXCEPT ![p.conversation].message_count = count]
                    /\ users' = IF updated = cached
                                THEN users
                                ELSE [users EXCEPT ![p.user_id].total_conversations =
                                                       updated.total_conversations]
                    /\ resp' = Response("query", 200,
                           [answer |-> get_response(outcome), conversation_id |-> p.conversation])
             /\ pending' = [pending EXCEPT ![r] = Idle]
             /\ UNCHANGED <<now, probe, delivered>>

\* POST /api/chat/query after the provider call returned: both messages are
\* inserted, and the counters are written from the values the session
\* loaded before the call (only changed attributes are written)
FinishSend(r, outcome) ==
    /\ pending[r].pc = "answering"
    /\ LET p == pending[r]
           count == p.message_count + 2
           cached == [users[p.user_id] EXCEPT !.total_conversations = p.total_conversations]
           updated == update_user_stats(cached, count)
       IN  /\ messages' = messages \o
                  <<NewMessage(p.conversation, p.user_id, "user", p.question),
                    NewMessage(p.conversation, p.user_id, "assistant", get_response(outcome))>>
           /\ conversations' = [conversations EXCEPT ![p.conversation].message_count = count]
           /\ users' = IF updated = cached
                       THEN users
                       ELSE [users EXCEPT ![p.user_id].total_conversations =
                                              updated.total_conversations]
           /\ resp' = Response("query", 200,
                  [answer |-> get_response(outcome), conversation_id |-> p.conversation])
    /\ pending' = [pending EXCEPT ![r] = Idle]
    /\ UNCHANGED <<now, probe, delivered>>

\* DELETE /api/chat/conversations/{conversation_id}
DeleteConversation(token, conversation_id) ==
    LET a == get_current_user_from_db(users, token, now)
    IN  IF ~a.ok THEN AuthFailed("delete_conversation")
        ELSE /\ users' = a.users
             /\ IF /\ conversation_id \in 1 .. Len(conversations)
                   /\ conversations[conversation_id].user_id = a.id
                THEN /\ conversations' =
                           [conversations EXCEPT ![conversation_id].is_active = FALSE]
                     /\ resp' = Response("delete_conversation", 200, NoBody)
                ELSE /\ resp' = Response("delete_conversation", 404, NoBody)
                     /\ UNCHANGED conversations
             /\ UNCHANGED <<now, messages, probe, delivered, pending>>

NextChat ==
    \/ \E r \in Requests, token \in ChatTokens, q \in Questions, c \in ChatConversationIds :
          BeginSend(r, token, q, c)
    \/ \E r \in Requests, o \in ProviderOutcomes : FinishSend(r, o)
    \/ \E r \in Requests : FailSend(r)
    \/ \E token \in ChatTokens, c \in 1 .. ChatMaxConversations :
          DeleteConversation(token, c)

SpecChat == InitChat /\ [][NextChat]_vars

\* get_conversation_history: the rows of the conversation ordered by
\* created_at ascending, cut by LIMIT, each reduced to role and content
RowsOf(M, conversation_id) ==
    SelectSeq(M, LAMBDA m : m.conversation_id = conversation_id)

Reduced(rows) == [i \in 1 .. Len(rows) |-> [role |-> rows[i].role, content |-> rows[i].content]]

get_conversation_history(M, conversation_id) ==
    LET rows == RowsOf(M, conversation_id)
    IN  Reduced(IF Len(rows) <= HISTORY_LIMIT THEN rows ELSE SubSeq(rows, 1, HISTORY_LIMIT))

\* a ledger of two conversations growing message by message (content is the
\* serial number of the message), read for context at any length
HistoryConversations == {1, 2}

StoreMessage(c) ==
    /\ Len(messages) < MaxHistoryMessages
    /\ messages' = Append(messages,
          NewMessage(c, extract_user_id(Sub1),
                     IF Len(RowsOf(messages, c)) % 2 = 0 THEN "user" ELSE "assistant",
                     Len(messages) + 1))
    /\ resp' = Response("none", 0, NoBody)
    /\ UNCHANGED <<now, users, conversations, probe, delivered, pending>>

ReadHistory(c) ==
    /\ resp' = Response("history", 200,
          [conversation_id |-> c, history |-> get_conversation_history(messages, c)])
    /\ UNCHANGED <<now, users, conversations, messages, probe, delivered, pending>>

NextHistory ==
    \/ \E c \in HistoryConversations : StoreMessage(c)
    \/ \E c \in HistoryConversations : ReadHistory(c)

SpecHistory == InitBilling /\ [][NextHistory]_vars

\* one account submitting questions of every shape, below and at its quota
NextValidation ==
    \/ Tick
    \/ \E token \in QuotaTokens :
          \/ IncrementQuestion(token)
          \/ \E q \in ValidationQuestions, c \in ConversationIds, o \in ProviderOutcomes :
                SendMessage(token, q, c, o)

SpecValidation == Init /\ [][NextValidation]_vars

\* the UPDATE of a flush: a column is written only if the session changed it
Written(stored, loaded, new) == IF new # loaded THEN new ELSE stored

\* POST /api/user/increment-question handled concurrently, each request
\* with a session of its own: the dependency loads the row (and commits the
\* login bookkeeping); the request takes the first free slot
BeginIncrement(r, token) ==
    /\ pending[r] = Idle
    /\ \A earlier \in 1 .. r - 1 : pending[earlier] # Idle
    /\ LET a == get_current_user_from_db(users, token, now)
       IN  IF ~a.ok
           THEN /\ resp' = Response("increment_question", 500, NoBody)
                /\ UNCHANGED <<users, pending>>
           ELSE /\ users' = a.users
                /\ pending' = [pending EXCEPT ![r] =
                       [pc |-> "recording", user_id |-> a.id, user |-> a.users[a.id]]]
                /\ UNCHANGED resp
    /\ UNCHANGED <<now, conversations, messages, probe, delivered>>

\* variant: the handler decides and counts on the row as stored now
CommitIncrement_fresh(r) ==
    /\ pending[r].pc = "recording"
    /\ LET id == pending[r].user_id
           u == users[id]
       IN  IF ~can_ask_questions(u, FREE_USER_DAILY_LIMIT, now)
           THEN /\ resp' = Response("increment_question", 429, NoBody)
                /\ UNCHANGED users
           ELSE LET v == record_question(reset_daily_count_if_needed(u, now), now)
                IN  /\ u.question_count < MaxQuestions
                    /\ users' = [users EXCEPT ![id] = v]
                    /\ resp' = Response("increment_question", 200,
                           [question_count |-> v.question_count,
                            daily_question_count |-> v.daily_question_count,
                            can_ask_more |-> can_ask_questions(v, FREE_USER_DAILY_LIMIT, now),
                            is_premium |-> v.is_premium])
    /\ pending' = [pending EXCEPT ![r] = Idle]
    /\ UNCHANGED <<now, conversations, messages, probe, delivered>>

\* the handler body: quota check, reset and increment on the row the session
\* loaded, commit of the changed columns, response from the refreshed row
CommitIncrement(r) ==
    /\ pending[r].pc = "recording"
    /\ LET id == pending[r].user_id
           u == pending[r].user
       IN  IF ~can_ask_questions(u, FREE_USER_DAILY_LIMIT, now)
           THEN /\ resp' = Response("increment_question", 429, NoBody)
                /\ UNCHANGED users
           ELSE LET v == record_question(reset_daily_count_if_needed(u, now), now)
                    w == [users[id] EXCEPT
                            !.question_count = Written(@, u.question_count, v.question_count),
                            !.daily_question_count =
                                Written(@, u.daily_question_count, v.daily_question_count),
                            !.last_question_date =
                                Written(@, u.last_question_date, v.last_question_date)]
                IN  /\ u.question_count < MaxQuestions
                    /\ users' = [users EXCEPT ![id] = w]
                    /\ resp' = Response("increment_question", 200,
                           [question_count |-> w.question_count,
                            daily_question_count |-> w.daily_question_count,
                            can_ask_more |-> can_ask_questions(w, FREE_USER_DAILY_LIMIT, now),
                            is_premium |-> w.is_premium])
    /\ pending' = [pending EXCEPT ![r] = Idle]
    /\ UNCHANGED <<now, conversations, messages, probe, delivered>>

NextRecording ==
    \/ Tick
    \/ \E r \in Requests, token \in QuotaTokens : BeginIncrement(r, token)
    \/ \E r \in Requests : CommitIncrement(r)

SpecRecording == InitBilling /\ [][NextRecording]_vars

(***************************************************************************)
(* Properties                                                              *)
(***************************************************************************)
AccountOf(token) == extract_user_id(token.sub)

SameUsage(id) ==
    /\ users'[id].question_count = users[id].question_count
    /\ users'[id].daily_question_count = users[id].daily_question_count
    /\ users'[id].last_question_date = users[id].last_question_date

\* C1: can_ask_questions is true for a premium account; otherwise true when
\* last_question_date is set and falls on another calendar date than today;
\* otherwise it is daily_question_count < daily_limit, so it is false for a
\* non-premium account that asked today and stands exactly at the limit.
CanAskContract ==
    probe.result # "idle" =>
        LET answer == probe.result = "true"
            fresh == /\ probe.last_question_date # NoneT
                     /\ probe.last_question_date \div TicksPerDay # probe.today \div TicksPerDay
        IN  /\ probe.is_premium => answer
            /\ (~probe.is_premium /\ fresh) => answer
            /\ (~probe.is_premium /\ ~fresh) =>
                   (answer <=> probe.daily_question_count < probe.daily_limit)
            /\ ( /\ ~probe.is_premium
                 /\ probe.last_question_date # NoneT
                 /\ probe.last_question_date \div TicksPerDay = probe.today \div TicksPerDay
                 /\ probe.daily_question_count = probe.daily_limit ) => ~answer

CanAskAtLimitToday ==
    /\ probe.result = "false"
    /\ ~probe.is_premium
    /\ probe.last_question_date # NoneT
    /\ probe.last_question_date \div TicksPerDay = probe.today \div TicksPerDay
    /\ probe.daily_limit > 0
    /\ probe.daily_question_count = probe.daily_limit

\* C2 (as stated): every account with is_premium = false has
\* daily_question_count <= daily_limit in every reachable state.
NonPremiumWithinLimit ==
    \A id \in DOMAIN users :
        ~users[id].is_premium =>
            users[id].daily_question_count <= FREE_USER_DAILY_LIMIT

\* C2 (amended): no step raises the daily_question_count of an account that
\* is not premium above daily_limit; the counter of a non-premium account
\* exceeds the limit only with a value it reached while premium.
NonPremiumRecordingWithinLimit ==
    [][\A id \in DOMAIN users :
          ( /\ ~users[id].is_premium
            /\ users'[id].daily_question_count > users[id].daily_question_count )
          => users'[id].daily_question_count <= FREE_USER_DAILY_LIMIT]_vars

RecordedUpToLimit ==
    /\ resp.op = "increment_question"
    /\ resp.code = 200
    /\ \E id \in DOMAIN users :
          /\ ~users[id].is_premium
          /\ users[id].daily_question_count = FREE_USER_DAILY_LIMIT

AtLimitToday(id) ==
    /\ id \in DOMAIN users
    /\ ~users[id].is_premium
    /\ users[id].last_question_date # NoneT
    /\ Date(users[id].last_question_date) = Date(now)
    /\ users[id].daily_question_count >= FREE_USER_DAILY_LIMIT

\* C3: a question submission or question recording by a non-premium account
\* that stands at the limit today is answered 429, leaves question_count,
\* daily_question_count and last_question_date as they were and creates no
\* conversation and no message.
QuotaExceededRejected ==
    [][\A token \in QuotaTokens :
          ( /\ AtLimitToday(AccountOf(token))
            /\ \/ IncrementQuestion(token)
               \/ \E q \in Questions, c \in ConversationIds, o \in ProviderOutcomes :
                     SendMessage(token, q, c, o) )
          => /\ resp'.code = 429
             /\ SameUsage(AccountOf(token))
             /\ conversations' = conversations
             /\ messages' = messages]_vars

RejectedAtLimit ==
    /\ resp.op \in {"query", "increment_question"}
    /\ resp.code = 429
    /\ AtLimitToday(AccountOf(Token1))
    /\ users[AccountOf(Token1)].daily_question_count = FREE_USER_DAILY_LIMIT

StaleDay(id) ==
    /\ id \in DOMAIN users
    /\ ~users[id].is_premium
    /\ users[id].last_question_date # NoneT
    /\ Date(users[id].last_question_date) < Date(now)

\* C4: for a non-premium account whose last question lies on an earlier date,
\* whatever its stored daily counter, a submitted question is accepted, a
\* request that only reads leaves daily_question_count = 0, and a question
\* recording leaves daily_question_count = 1, question_count one higher and
\* last_question_date on today's date.
NewDayRecording ==
    [][\A token \in QuotaTokens :
          LET id == AccountOf(token)
          IN  StaleDay(id) =>
                /\ IncrementQuestion(token) =>
                      /\ resp'.code = 200
                      /\ users'[id].daily_question_count = 1
                      /\ users'[id].question_count = users[id].question_count + 1
                      /\ users'[id].last_question_date # NoneT
                      /\ Date(users'[id].last_question_date) = Date(now')
                /\ (GetUsage(token) \/ GetSession(token)) =>
                      /\ users'[id].daily_question_count = 0
                      /\ resp'.body.daily_question_count = 0
                /\ (\E c \in ConversationIds, o \in ProviderOutcomes :
                       SendMessage(token, OkQuestion, c, o)) => resp'.code = 200]_vars

RecordedAfterStaleLimit ==
    /\ resp.op = "increment_question"
    /\ resp.code = 200
    /\ Date(now) > 0
    /\ \E id \in DOMAIN users :
          /\ ~users[id].is_premium
          /\ users[id].daily_question_count = 1
          /\ users[id].question_count = FREE_USER_DAILY_LIMIT + 1
          /\ users[id].subscription_status = "free"
          /\ Date(users[id].last_question_date) = Date(now)

LapsedPremium(id) ==
    /\ id \in DOMAIN users
    /\ users[id].is_premium
    /\ users[id].premium_expires_at # NoneT
    /\ now > users[id].premium_expires_at

\* C6: an account with is_premium = true whose premium_expires_at has passed
\* is treated as non-premium: at the limit today its question is rejected
\* with 429, and its conversation history is refused with 403.
LapsedPremiumIsNonPremium ==
    [][\A token \in QuotaTokens :
          LET id == AccountOf(token)
          IN  LapsedPremium(id) =>
                /\ ( /\ users[id].last_question_date # NoneT
                     /\ Date(users[id].last_question_date) = Date(now)
                     /\ users[id].daily_question_count >= FREE_USER_DAILY_LIMIT
                     /\ \E c \in ConversationIds, o \in ProviderOutcomes :
                           SendMessage(token, OkQuestion, c, o) )
                   => resp'.code = 429
                /\ GetConversations(token) => resp'.code = 403]_vars

StatusReads == {"check_premium", "subscription_status", "session", "usage"}

\* C7: once the premium check has reported a lapsed account as expired, the
\* next status read (premium check, subscription status, session, usage)
\* also reports is_premium = false and subscription_status = "expired".
ExpiryStaysReported ==
    [][( /\ resp.op = "check_premium"
         /\ resp.code = 200
         /\ resp.body.subscription_status = "expired"
         /\ resp'.op \in StatusReads
         /\ resp'.code = 200 )
       => /\ resp'.body.is_premium = FALSE
          /\ resp'.body.subscription_status = "expired"]_vars

Changed(id) == users'[id] # users[id]

SameCounters(id) ==
    /\ SameUsage(id)
    /\ users'[id].total_conversations = users[id].total_conversations

\* C8: a payment-failed event sets subscription_status of the account found
\* by the invoice's subscription id to past_due and leaves its is_premium,
\* premium_expires_at, subscription_id and usage counters as they were, so an
\* active subscriber is still premium; no other account changes.
PaymentFailedFrame ==
    [][\A e \in FailedEvents :
          (handle_payment_failed(e) /\ e.subscription # NoneS) =>
             /\ DOMAIN users' = DOMAIN users
             /\ (\E id \in DOMAIN users : users[id].subscription_id = e.subscription)
                   => \E id \in DOMAIN users :
                         /\ users[id].subscription_id = e.subscription
                         /\ users'[id].subscription_status = "past_due"
                         /\ \A other \in DOMAIN users \ {id} : ~Changed(other)
             /\ \A id \in DOMAIN users :
                   /\ Changed(id) => users'[id].subscription_status = "past_due"
                   /\ users'[id].is_premium = users[id].is_premium
                   /\ users'[id].premium_expires_at = users[id].premium_expires_at
                   /\ users'[id].subscription_id = users[id].subscription_id
                   /\ SameCounters(id)]_vars

PastDueStillPremium ==
    /\ resp.op = "webhook"
    /\ \E id \in DOMAIN users :
          /\ users[id].is_premium
          /\ users[id].subscription_status = "past_due"
          /\ users[id].question_count > 0

\* C9: a subscription-updated event sets subscription_status of the account
\* holding the payload's id to the payload's status; is_premium becomes true
\* for active, false for canceled, unpaid and past_due, and stays for any
\* other status; premium_expires_at changes only for an active status with a
\* period end, and then becomes that period end.
SubscriptionUpdatedEffect ==
    [][\A e \in UpdatedEvents :
          ( /\ \E id \in DOMAIN users : users[id].subscription_id = e.subscription
            /\ handle_subscription_updated(e) )
          => \E id \in DOMAIN users :
                /\ users[id].subscription_id = e.subscription
                /\ \A other \in DOMAIN users \ {id} : ~Changed(other)
                /\ users'[id].subscription_status = e.status
                /\ e.status = "active" => users'[id].is_premium
                /\ e.status \in {"canceled", "unpaid", "past_due"} => ~users'[id].is_premium
                /\ e.status \notin {"active", "canceled", "unpaid", "past_due"}
                      => users'[id].is_premium = users[id].is_premium
                /\ users'[id].premium_expires_at =
                      IF e.status = "active" /\ e.period_end # NoneT
                      THEN e.period_end
                      ELSE users[id].premium_expires_at
                /\ users'[id].subscription_id = users[id].subscription_id
                /\ SameCounters(id)]_vars

PastDueRevoked ==
    /\ resp.op = "webhook"
    /\ \E id \in DOMAIN users :
          /\ ~users[id].is_premium
          /\ users[id].subscription_status = "past_due"
          /\ users[id].premium_expires_at = 1
    /\ \E id \in DOMAIN users :
          /\ users[id].subscription_status = "trialing"
          /\ users[id].is_premium

\* C10: a checkout-completed event whose metadata names an existing account
\* sets that account to is_premium = true, subscription_status = active,
\* subscription_id = the payload's subscription and premium_expires_at =
\* now + 30 days, and changes no other account.
CheckoutCompletedEffect ==
    [][\A e \in CheckoutEvents :
          (handle_checkout_completed(e) /\ e.user_id \in DOMAIN users) =>
             /\ DOMAIN users' = DOMAIN users
             /\ users'[e.user_id].is_premium
             /\ users'[e.user_id].subscription_status = "active"
             /\ users'[e.user_id].subscription_id = e.subscription
             /\ users'[e.user_id].premium_expires_at = now + 30 * TicksPerDay
             /\ SameCounters(e.user_id)
             /\ \A other \in DOMAIN users \ {e.user_id} : ~Changed(other)]_vars

UpgradedLater ==
    /\ resp.op = "webhook"
    /\ now > 0
    /\ Cardinality(DOMAIN users) = 2
    /\ \E id \in DOMAIN users :
          /\ users[id].is_premium
          /\ users[id].subscription_status = "active"
          /\ users[id].subscription_id \in SubIds
          /\ users[id].premium_expires_at = now + 30 * TicksPerDay
    /\ \E id \in DOMAIN users :
          /\ ~users[id].is_premium
          /\ users[id].subscription_status = "free"

\* C11: delivering the event that was delivered last once more, at the same
\* or a later moment, leaves every field of every account as the first
\* delivery left it, for each of the five event types.
RedeliveryIdempotent ==
    [][\A e \in BillingEvents :
          (delivered = e /\ Deliver(e)) => users' = users]_vars

\* the event finds no account: a checkout without user id or with an unknown
\* one, any other event with a subscription id no account holds
NoMatch(e) ==
    IF e.type = "checkout.session.completed"
    THEN e.user_id = NoneId \/ e.user_id \notin DOMAIN users
    ELSE \A id \in DOMAIN users : users[id].subscription_id # e.subscription

\* C12: a verified billing event changes at most one account and creates or
\* removes none; when no account matches its correlation id (checkout: user
\* id missing or unknown; other events: subscription id unknown) no account
\* field changes; in every case the delivery is answered with 200.
WebhookAtMostOneAccount ==
    [][/\ users' # users =>
             \A e \in BillingEvents : NoMatch(e) => ~StripeWebhook(e)
       /\ \/ /\ DOMAIN users' = DOMAIN users
             /\ Cardinality({id \in DOMAIN users : Changed(id)}) <= 1
             /\ resp'.op = "webhook"
             /\ resp'.code = 200
          \/ \A e \in BillingEvents : ~StripeWebhook(e)]_vars

UnmatchedAcknowledged ==
    /\ resp.op = "webhook"
    /\ resp.code = 200
    /\ Cardinality(DOMAIN users) = 2
    /\ \A id \in DOMAIN users :
          /\ users[id].subscription_status = "free"
          /\ users[id].subscription_id = NoneS
          /\ ~users[id].is_premium

SpecStatuses == {"free", "active", "past_due", "canceled", "expired"}

\* C13 (as stated): every account's subscription_status is one of free,
\* active, past_due, canceled, expired in every reachable state, whatever
\* statuses the subscription-updated events carry.
StatusInEnumeration ==
    \A id \in DOMAIN users : users[id].subscription_status \in SpecStatuses

\* C13 (amended): an account starts as free; a billing event changes
\* subscription_status only to active, past_due or canceled, or, for a
\* subscription-updated event, to the status the event carries, stored as
\* delivered (unpaid and trialing included).
StatusFollowsEvents ==
    [][\A id \in DOMAIN users' :
          IF id \in DOMAIN users
          THEN users'[id].subscription_status # users[id].subscription_status =>
                  \/ users'[id].subscription_status \in {"active", "past_due", "canceled"}
                  \/ \E e \in UpdatedEvents :
                        /\ handle_subscription_updated(e)
                        /\ users[id].subscription_id = e.subscription
                        /\ users'[id].subscription_status = e.status
          ELSE users'[id].subscription_status = "free"]_vars

StoredUnpaid ==
    /\ resp.op = "webhook"
    /\ \E id \in DOMAIN users : users[id].subscription_status = "unpaid"
    /\ \E id \in DOMAIN users : users[id].subscription_status = "trialing"

\* C14: no two accounts hold the same non-null subscription_id in any
\* reachable state.
UniqueSubscriptionIds ==
    \A a, b \in DOMAIN users :
        (a # b /\ users[a].subscription_id # NoneS)
           => users[a].subscription_id # users[b].subscription_id

Subjects == {token.sub : token \in IdentityTokens}

\* C15: there is at most one account per identity subject in every reachable
\* state; of the first requests of one unseen subject that are handled
\* concurrently and all found no account, an insert is committed only while
\* no account of the subject exists: a later one fails and changes nothing.
OneAccountPerSubject ==
    /\ [](\A sub \in Subjects : Cardinality(FindBySub(users, sub)) <= 1)
    /\ [][\A r \in Requests :
            ( /\ CommitCreate(r)
              /\ FindBySub(users, pending[r].token.sub) # {} )
            => /\ resp'.code = 500
               /\ users' = users]_vars

\* two requests of one subject are past the lookup and one has committed
RacingCreateLost ==
    /\ resp.op = "session"
    /\ resp.code = 200
    /\ \E r \in Requests :
          /\ pending[r].pc = "creating"
          /\ FindBySub(users, pending[r].token.sub) # {}

\* C16: the first request of a subject that has no account creates an
\* account for that subject, whatever accounts already exist.
FirstRequestCreatesAccount ==
    [][\A token \in IdentityTokens :
          (FindBySub(users, token.sub) = {} /\ GetSession(token))
          => /\ resp'.code = 200
             /\ Cardinality(FindBySub(users', token.sub)) = 1]_vars

\* no request is between its lookup and its final commit
Quiescent == \A r \in Requests : pending[r] = Idle

MessagesOf(c) == {i \in 1 .. Len(messages) : messages[i].conversation_id = c}

QuestionsOf(c) == {i \in MessagesOf(c) : messages[i].role = "user"}

\* C17: whenever no request is in flight, each conversation's message_count
\* equals the number of messages stored for it and twice the number of
\* questions accepted on it, also after two questions for the same
\* conversation were processed concurrently.
MessageCountMatchesLedger ==
    Quiescent =>
        \A c \in 1 .. Len(conversations) :
            /\ conversations[c].message_count = Cardinality(MessagesOf(c))
            /\ conversations[c].message_count = 2 * Cardinality(QuestionsOf(c))

ConversationsOf(id) == {c \in 1 .. Len(conversations) : conversations[c].user_id = id}

\* C18: whenever no request is in flight, total_conversations of every
\* account equals the number of conversation records created for it, also
\* after a first exchange failed and after concurrent first exchanges.
TotalConversationsMatchesRecords ==
    Quiescent =>
        \A id \in DOMAIN users :
            users[id].total_conversations = Cardinality(ConversationsOf(id))

Reusable(conversation_id, user_id) ==
    /\ conversation_id \in 1 .. Len(conversations)
    /\ conversations[conversation_id].user_id = user_id
    /\ conversations[conversation_id].is_active

\* C19: an accepted question is bound to the conversation named by its
\* conversation_id only if that names a non-deleted conversation owned by
\* the requester; for no id, an unknown id, a soft-deleted conversation or
\* another account's conversation a new conversation owned by the requester
\* is created and no existing conversation or message changes; the exchange
\* is then appended to the conversation so chosen and touches no other.
GetOrCreateConversation ==
    [][/\ \A r \in Requests, token \in ChatTokens, cid \in ChatConversationIds :
             ( /\ pending[r] = Idle
               /\ pending'[r] # Idle
               /\ BeginSend(r, token, OkQuestion, cid) ) =>
                /\ messages' = messages
                /\ pending'[r].user_id = AccountOf(token)
                /\ IF Reusable(cid, AccountOf(token))
                   THEN /\ conversations' = conversations
                        /\ pending'[r].conversation = cid
                   ELSE /\ Len(conversations') = Len(conversations) + 1
                        /\ SubSeq(conversations', 1, Len(conversations)) = conversations
                        /\ conversations'[Len(conversations')].user_id = AccountOf(token)
                        /\ conversations'[Len(conversations')].is_active
                        /\ conversations'[Len(conversations')].message_count = 0
                        /\ pending'[r].conversation = Len(conversations')
       /\ \A r \in Requests, o \in ProviderOutcomes :
             ( /\ pending[r] # Idle
               /\ pending'[r] = Idle
               /\ FinishSend(r, o) ) =>
                /\ Len(messages') = Len(messages) + 2
                /\ SubSeq(messages', 1, Len(messages)) = messages
                /\ \A i \in Len(messages) + 1 .. Len(messages') :
                      /\ messages'[i].conversation_id = pending[r].conversation
                      /\ messages'[i].user_id = pending[r].user_id
                /\ conversations[pending[r].conversation].user_id = pending[r].user_id
                /\ Len(conversations') = Len(conversations)
                /\ \A c \in 1 .. Len(conversations) :
                      c # pending[r].conversation => conversations'[c] = conversations[c]]_vars

\* questions that named another account's conversation and a soft-deleted
\* one are in flight, each on a conversation of its own
ForeignAndDeletedIdsCreated ==
    /\ \E r \in Requests :
          /\ pending[r].pc = "answering"
          /\ pending[r].requested = 1
          /\ pending[r].conversation = 2
          /\ conversations[1].user_id # pending[r].user_id
          /\ conversations[2].user_id = pending[r].user_id
    /\ \E r \in Requests :
          /\ pending[r].pc = "answering"
          /\ pending[r].requested = 1
          /\ pending[r].conversation = 1
          /\ ~conversations[1].is_active

\* C20: the stored messages are pairs of a user message and the assistant
\* message of the same request on the same conversation; a failed provider
\* call still ends with 200 and stores the fallback answer as the assistant
\* message, and a failed request stores neither message.
ExchangePaired ==
    /\ [](/\ Len(messages) % 2 = 0
          /\ \A i \in 1 .. Len(messages) :
                i % 2 = 1 =>
                   /\ messages[i].role = "user"
                   /\ messages[i + 1].role = "assistant"
                   /\ messages[i + 1].conversation_id = messages[i].conversation_id
                   /\ messages[i + 1].user_id = messages[i].user_id)
    /\ [][/\ \A r \in Requests :
                FinishSend(r, "error") =>
                   /\ resp'.code = 200
                   /\ resp'.body.answer = "apology"
                   /\ Len(messages') = Len(messages) + 2
                   /\ messages'[Len(messages')].role = "assistant"
                   /\ messages'[Len(messages')].content = "apology"
          /\ \A r \in Requests : FailSend(r) => messages' = messages]_vars

FallbackStored ==
    /\ resp.op = "query"
    /\ resp.code = 200
    /\ resp.body.answer = "apology"
    /\ Len(messages) = 4
    /\ messages[3].role = "user"
    /\ messages[4].content = "apology"
    /\ messages[2].content = "answer"

\* C21: the history read for context is the min(n, 10) most recent messages
\* of the conversation, oldest first, each reduced to role and content.
HistoryIsMostRecent ==
    resp.op = "history" =>
        LET rows == RowsOf(messages, resp.body.conversation_id)
            n == Len(rows)
            k == IF n <= HISTORY_LIMIT THEN n ELSE HISTORY_LIMIT
        IN  /\ Len(resp.body.history) = k
            /\ \A i \in 1 .. k :
                  /\ resp.body.history[i].role = rows[n - k + i].role
                  /\ resp.body.history[i].content = rows[n - k + i].content

RejectedQuestions == {EmptyQuestion, BlankQuestion, LongQuestion, PaddedQuestion}

\* C22 (as stated): an empty, blank or too long question is rejected with a
\* validation error and creates no conversation or message; a non-empty
\* question of at most 2000 characters is never rejected by validation.
InvalidQuestionGetsValidationError ==
    [][\A token \in QuotaTokens, q \in ValidationQuestions,
          c \in ConversationIds, o \in ProviderOutcomes :
          SendMessage(token, q, c, o) =>
             IF q \in RejectedQuestions
             THEN /\ resp'.code = 400
                  /\ conversations' = conversations
                  /\ messages' = messages
             ELSE resp'.code # 400]_vars

\* C22 (amended): an empty, blank or too long question is rejected and
\* creates no conversation or message; the rejection is the validation
\* error unless the account may not ask any more today, in which case the
\* quota error comes first; a non-empty question of at most 2000 characters
\* (2000 included) is never rejected by validation.
InvalidQuestionRejected ==
    [][\A token \in QuotaTokens, q \in ValidationQuestions,
          c \in ConversationIds, o \in ProviderOutcomes :
          SendMessage(token, q, c, o) =>
             IF q \in RejectedQuestions
             THEN /\ resp'.code \in {400, 429}
                  /\ resp'.code = 429 <=>
                        ~can_ask_questions(users'[AccountOf(token)], FREE_USER_DAILY_LIMIT, now)
                  /\ conversations' = conversations
                  /\ messages' = messages
             ELSE resp'.code # 400]_vars

FullAcceptedBlankRejected ==
    /\ resp.op = "query"
    /\ resp.code = 400
    /\ Len(conversations) = 1
    /\ Len(messages) = 2
    /\ messages[1].content = FullQuestion

\* C23: a question submission that ends with a storage failure leaves none
\* of its writes in the store: no message, no counter change and no
\* conversation it created; it ends with a server error.
FailedSendLeavesNothing ==
    [][\A r \in Requests :
          (pending[r] # Idle /\ FailSend(r)) =>
             /\ resp'.code = 500
             /\ messages' = messages
             /\ users' = users
             /\ \A c \in 1 .. Len(conversations') :
                   ~(pending[r].created /\ c = pending[r].conversation)]_vars

AnswersOf(c) == {i \in MessagesOf(c) : messages[i].role = "assistant"}

InFlightOn(c) == {r \in Answering : pending[r].conversation = c}

\* C24: while the provider call of a question submission is in flight the
\* store holds the user message of that request and not yet its assistant
\* message: each conversation holds one unanswered user message for every
\* request in flight on it.
UserMessageStoredBeforeCall ==
    \A c \in 1 .. Len(conversations) :
        Cardinality(QuestionsOf(c)) = Cardinality(AnswersOf(c)) + Cardinality(InFlightOn(c))

\* the daily counter as it counts today: 0 for an account without a row yet
\* and for one whose last question lies on another date
CountToday(id) ==
    IF id \notin DOMAIN users THEN 0
    ELSE IF /\ users[id].last_question_date # NoneT
            /\ Date(users[id].last_question_date) # Date(now)
         THEN 0
         ELSE users[id].daily_question_count

PremiumNow(id) == id \in DOMAIN users /\ users[id].is_premium

\* C25: question submission, question recording, usage and session decide,
\* increment and report on the daily counter as reset for the current date:
\* a request is answered 429 exactly when the account is not premium and its
\* count of today has reached the limit, a recording stores and reports the
\* count of today plus one, and usage and session report the count of today.
ResetBeforeUse ==
    [][\A token \in QuotaTokens :
          LET id == AccountOf(token)
              refused == ~PremiumNow(id) /\ CountToday(id) >= FREE_USER_DAILY_LIMIT
          IN  /\ (\E c \in ConversationIds, o \in ProviderOutcomes :
                     SendMessage(token, OkQuestion, c, o))
                    => /\ resp'.code = 429 <=> refused
                       /\ users'[id].daily_question_count = CountToday(id)
              /\ IncrementQuestion(token)
                    => /\ resp'.code = 429 <=> refused
                       /\ resp'.code = 200 =>
                             /\ users'[id].daily_question_count = CountToday(id) + 1
                             /\ resp'.body.daily_question_count = CountToday(id) + 1
              /\ GetUsage(token)
                    => /\ resp'.body.daily_question_count = CountToday(id)
                       /\ resp'.body.can_ask_questions <=> ~refused
              /\ GetSession(token)
                    => resp'.body.daily_question_count = CountToday(id)]_vars

StaleCountReportedZero ==
    /\ resp.op = "usage"
    /\ resp.body.daily_question_count = 0
    /\ resp.body.can_ask_questions
    /\ \E id \in DOMAIN users :
          /\ ~users[id].is_premium
          /\ users[id].question_count = FREE_USER_DAILY_LIMIT
          /\ Date(users[id].last_question_date) # Date(now)

\* C26: a question recording is accepted on the count its request loaded,
\* whatever has been committed since: a request of a non-premium account
\* that loaded a count of today below the limit is accepted even when the
\* stored count has reached the limit in the meantime, so two concurrent
\* recordings at daily_limit - 1 are both accepted.
RecordingDecidesOnLoadedRow ==
    [][\A r \in Requests :
          ( /\ pending[r] # Idle
            /\ CommitIncrement(r)
            /\ ~pending[r].user.is_premium
            /\ pending[r].user.last_question_date # NoneT
            /\ Date(pending[r].user.last_question_date) = Date(now)
            /\ pending[r].user.daily_question_count < FREE_USER_DAILY_LIMIT )
          => /\ resp'.code = 200
             /\ users'[pending[r].user_id].daily_question_count =
                   pending[r].user.daily_question_count + 1]_vars

\* one of two recordings that loaded daily_limit - 1 has been accepted and
\* the other is still to decide on the count it loaded
SecondRecordingPastLimit ==
    /\ resp.op = "increment_question"
    /\ resp.code = 200
    /\ resp.body.daily_question_count = FREE_USER_DAILY_LIMIT
    /\ \E r \in Requests :
          /\ pending[r].pc = "recording"
          /\ ~pending[r].user.is_premium
          /\ pending[r].user.daily_question_count = FREE_USER_DAILY_LIMIT - 1
          /\ Date(pending[r].user.last_question_date) = Date(now)
          /\ users[pending[r].user_id].daily_question_count = FREE_USER_DAILY_LIMIT
          /\ Date(users[pending[r].user_id].last_question_date) = Date(now)

\* C27: from one committed state to the next question_count and
\* total_conversations of an account never decrease, and
\* daily_question_count decreases only by the reset to 0 of a counter whose
\* last_question_date lies on another date than today (a recording request
\* that resets the counter leaves 0 + 1).
CountersMonotonic ==
    [][\A id \in DOMAIN users :
          /\ users'[id].question_count >= users[id].question_count
          /\ users'[id].total_conversations >= users[id].total_conversations
          /\ users'[id].daily_question_count < users[id].daily_question_count
                => /\ \/ users'[id].daily_question_count = 0
                      \/ /\ users'[id].daily_question_count = 1
                         /\ users'[id].question_count = users[id].question_count + 1
                   /\ users[id].last_question_date # NoneT
                   /\ Date(users[id].last_question_date) # Date(now)]_vars

SameSubscription(id) ==
    /\ users'[id].is_premium = users[id].is_premium
    /\ users'[id].subscription_status = users[id].subscription_status
    /\ users'[id].subscription_id = users[id].subscription_id
    /\ users'[id].premium_expires_at = users[id].premium_expires_at

PlanStatusCoupled ==
    \A id \in DOMAIN users :
        /\ users[id].subscription_status = "active" => users[id].is_premium
        /\ users[id].subscription_status \in {"free", "canceled", "unpaid"}
              => ~users[id].is_premium

\* a subscriber revoked by a deleted subscription next to an active one
RevokedNextToActive ==
    /\ resp.op = "webhook"
    /\ \E id \in DOMAIN users :
          /\ users[id].subscription_status = "canceled"
          /\ ~users[id].is_premium
          /\ users[id].premium_expires_at = 1
    /\ \E id \in DOMAIN users :
          /\ users[id].subscription_status = "active"
          /\ users[id].is_premium

\* C30: no step adds a message to a conversation that is soft-deleted when
\* the step commits, and message_count of a soft-deleted conversation never
\* changes, also when the conversation was deleted while a question on it
\* was waiting for the provider.
NoWriteToDeletedConversation ==
    [][\A c \in 1 .. Len(conversations) :
          ~conversations[c].is_active =>
             /\ RowsOf(messages', c) = RowsOf(messages, c)
             /\ conversations'[c].message_count = conversations[c].message_count]_vars
====
